---- MODULE Spec2Model ----
(***************************************************************************)
(* Food Info Backend (backend/main.py): the /search and /food/{fdc_id}     *)
(* handlers, the food summary normalizer _simplify_foods and the nutrient  *)
(* extractor _extract_key_nutrients, over tagged JSON values.              *)
(*                                                                         *)
(* JSON / Python values are records tagged by .t:                          *)
(*   [t |-> "absent"]            the key is missing from the mapping       *)
(*   [t |-> "none"]              JSON null / Python None                   *)
(*   [t |-> "int",   i |-> n]    Python int                                *)
(*   [t |-> "bool",  b |-> v]    Python bool (a subclass of int)           *)
(*   [t |-> "float", x10 |-> n]  Python float, held in tenths              *)
(*   [t |-> "str",   s |-> cs]   Python str, a sequence of characters      *)
(*   [t |-> "list",  l |-> es]   JSON array                                *)
(*   [t |-> "dict",  ...]        JSON object, one field per key read       *)
(***************************************************************************)
EXTENDS Integers, Sequences, FiniteSets, TLC

VARIABLES API_KEY, pc, request, calls, upstream, data, idx, found, response

vars == <<API_KEY, pc, request, calls, upstream, data, idx, found, response>>

(***************************************************************************)
(* Bounds of the model.                                                    *)
(***************************************************************************)
NumReqs == 2
MaxEntries == 2
MaxItems == 2

Reqs == 1..NumReqs

(***************************************************************************)
(* Python values and the built-ins the code applies to them.               *)
(***************************************************************************)
Absent == [t |-> "absent"]
None == [t |-> "none"]
IntV(n) == [t |-> "int", i |-> n]
BoolV(v) == [t |-> "bool", b |-> v]
FloatV(n) == [t |-> "float", x10 |-> n]
StrV(cs) == [t |-> "str", s |-> cs]
ListV(es) == [t |-> "list", l |-> es]

\* bool(v): Python truthiness, as `or` and `not` use it.
Truthy(v) ==
  CASE v.t = "absent" -> FALSE
    [] v.t = "none" -> FALSE
    [] v.t = "int" -> v.i # 0
    [] v.t = "bool" -> v.b
    [] v.t = "float" -> v.x10 # 0
    [] v.t = "str" -> Len(v.s) > 0
    [] v.t = "list" -> Len(v.l) > 0
    [] v.t = "dict" -> \E k \in DOMAIN v : k # "t" /\ v[k] # Absent
    [] OTHER -> TRUE

\* a or b
Or(a, b) == IF Truthy(a) THEN a ELSE b

\* d.get(k): None when the key is missing.
Get(d, k) == IF d[k] = Absent THEN None ELSE d[k]

\* d.get(k, default)
GetDefault(d, k, default) == IF d[k] = Absent THEN default ELSE d[k]

\* isinstance(v, int): True for int and for bool.
IsInstanceInt(v) == v.t \in {"int", "bool"}

\* The integer an int instance stands for (True == 1, False == 0), as dict
\* lookup and the int-typed model fields read it.
AsInt(v) == IF v.t = "bool" THEN (IF v.b THEN 1 ELSE 0) ELSE v.i

UpperChars ==
  <<"A", "B", "C", "D", "E", "F", "G", "H", "I", "J", "K", "L", "M",
    "N", "O", "P", "Q", "R", "S", "T", "U", "V", "W", "X", "Y", "Z">>

LowerChars ==
  <<"a", "b", "c", "d", "e", "f", "g", "h", "i", "j", "k", "l", "m",
    "n", "o", "p", "q", "r", "s", "t", "u", "v", "w", "x", "y", "z">>

LowerChar(c) ==
  IF \E i \in 1..Len(UpperChars) : UpperChars[i] = c
  THEN LowerChars[CHOOSE i \in 1..Len(UpperChars) : UpperChars[i] = c]
  ELSE c

\* str.lower()
Lower(cs) == [i \in 1..Len(cs) |-> LowerChar(cs[i])]

\* sub in cs (substring containment)
Contains(cs, sub) ==
  \E i \in 0..(Len(cs) - Len(sub)) :
    \A j \in 1..Len(sub) : cs[i + j] = sub[j]

DigitChars == <<"0", "1", "2", "3", "4", "5", "6", "7", "8", "9">>

IsDigit(c) == \E i \in 1..Len(DigitChars) : DigitChars[i] = c

DigitVal(c) == (CHOOSE i \in 1..Len(DigitChars) : DigitChars[i] = c) - 1

RECURSIVE DigitsVal(_)
DigitsVal(cs) ==
  IF Len(cs) = 0 THEN 0
  ELSE 10 * DigitsVal(SubSeq(cs, 1, Len(cs) - 1)) + DigitVal(cs[Len(cs)])

AllDigits(cs) == Len(cs) > 0 /\ \A i \in 1..Len(cs) : IsDigit(cs[i])

\* float(str) for the decimal literals the model draws: digits, optionally
\* followed by "." and one digit. Anything else raises ValueError.
StrIsNumber(cs) ==
  \/ AllDigits(cs)
  \/ /\ Len(cs) >= 3
     /\ cs[Len(cs) - 1] = "."
     /\ IsDigit(cs[Len(cs)])
     /\ AllDigits(SubSeq(cs, 1, Len(cs) - 2))

StrToTenths(cs) ==
  IF AllDigits(cs) THEN 10 * DigitsVal(cs)
  ELSE 10 * DigitsVal(SubSeq(cs, 1, Len(cs) - 2)) + DigitVal(cs[Len(cs)])

\* float(v) succeeds for numbers, bools and numeric strings.
FloatOk(v) ==
  \/ v.t \in {"int", "bool", "float"}
  \/ v.t = "str" /\ StrIsNumber(v.s)

\* float(v), where FloatOk(v).
Float(v) ==
  CASE v.t = "int" -> FloatV(10 * v.i)
    [] v.t = "bool" -> FloatV(IF v.b THEN 10 ELSE 0)
    [] v.t = "float" -> v
    [] v.t = "str" -> FloatV(StrToTenths(v.s))

\* str(v) of a str is the str itself; descriptions in the model are strings.
Str(v) == StrV(v.s)

\* int(v) of an int instance.
ToInt(v) == AsInt(v)

(***************************************************************************)
(* Character sequences of the string literals the code compares against.   *)
(***************************************************************************)
S_energy == <<"e", "n", "e", "r", "g", "y">>
S_calorie == <<"c", "a", "l", "o", "r", "i", "e">>
S_protein == <<"p", "r", "o", "t", "e", "i", "n">>
S_carbohydrate == <<"c", "a", "r", "b", "o", "h", "y", "d", "r", "a", "t", "e">>
S_fiber == <<"f", "i", "b", "e", "r">>
S_fat == <<"f", "a", "t">>
S_saturated == <<"s", "a", "t", "u", "r", "a", "t", "e", "d">>
S_unknown_item == <<"U", "n", "k", "n", "o", "w", "n", " ", "i", "t", "e", "m">>

Kinds == {"calories", "protein", "fat", "carbs", "fiber"}

\* The kind an entry writes to when it writes to none.
NoKind == "none"

KEY_NUTRIENT_IDS ==
  (208 :> "calories") @@ (203 :> "protein") @@ (204 :> "fat") @@
  (205 :> "carbs") @@ (291 :> "fiber")

\* {} where a search body, a detail body or a nested nutrient is read.
EmptySearchData ==
  [t |-> "dict", foods |-> Absent, totalHits |-> Absent,
   currentPage |-> Absent, totalPages |-> Absent]

EmptyDetailData ==
  [t |-> "dict", fdcId |-> Absent, description |-> Absent, foodNutrients |-> Absent]

EmptyNutrient == [t |-> "dict", id |-> Absent, name |-> Absent]

(***************************************************************************)
(* _ensure_api_key                                                         *)
(***************************************************************************)
KeyIsNone(key) == key.t = "none"

\* `if not API_KEY: raise HTTPException(500, ...)`
ApiKeyMissing(key) == ~Truthy(key)

(***************************************************************************)
(* _simplify_foods                                                         *)
(***************************************************************************)
FoodItem(fdcId, description) == [fdcId |-> fdcId, description |-> description]

\* desc = it.get("description") or it.get("lowercaseDescription") or "Unknown item"
ItemDescription(it) ==
  Or(Or(Get(it, "description"), Get(it, "lowercaseDescription")),
     StrV(S_unknown_item))

KeepPositiveOnly(fdc_id) == IsInstanceInt(fdc_id) /\ AsInt(fdc_id) > 0

\* `if isinstance(fdc_id, int):  # ensure valid`
KeepItem(fdc_id) == IsInstanceInt(fdc_id)

PrependItem(simplified, item) == <<item>> \o simplified

\* simplified.append(FoodItem(...))
AppendItem(simplified, item) == Append(simplified, item)

\* The loop of _simplify_foods over the items from position i on.
RECURSIVE SimplifyFrom(_, _, _)
SimplifyFrom(items, i, simplified) ==
  IF i > Len(items) THEN simplified
  ELSE LET it == items[i]
           fdc_id == Get(it, "fdcId")
           desc == ItemDescription(it)
       IN SimplifyFrom(items, i + 1,
            IF KeepItem(fdc_id)
            THEN AppendItem(simplified, FoodItem(AsInt(fdc_id), Str(desc)))
            ELSE simplified)

\* _simplify_foods(items): `for it in items or []`
simplify_foods(items) == SimplifyFrom(Or(items, ListV(<<>>)).l, 1, <<>>)

(***************************************************************************)
(* _extract_key_nutrients                                                  *)
(***************************************************************************)
\* found = {"calories": None, ..., "fiber": None}
FreshFound == [k \in Kinds |-> None]

\* name = (nut.get("name") or n.get("nutrientName") or "").lower()
EntryName(n) ==
  LET nut == Or(Get(n, "nutrient"), EmptyNutrient)
  IN Lower(Or(Or(Get(nut, "name"), Get(n, "nutrientName")), StrV(<<>>)).s)

NameKindNoSaturatedCheck(name) ==
  IF Contains(name, S_energy) \/ Contains(name, S_calorie) THEN "calories"
  ELSE IF Contains(name, S_protein) THEN "protein"
  ELSE IF Contains(name, S_carbohydrate) THEN "carbs"
  ELSE IF Contains(name, S_fiber) THEN "fiber"
  ELSE IF Contains(name, S_fat) THEN "fat"
  ELSE NoKind

\* The if/elif chain on the lower-cased name.
NameKind(name) ==
  IF Contains(name, S_energy) \/ Contains(name, S_calorie) THEN "calories"
  ELSE IF Contains(name, S_protein) THEN "protein"
  ELSE IF Contains(name, S_carbohydrate) THEN "carbs"
  ELSE IF Contains(name, S_fiber) THEN "fiber"
  ELSE IF Contains(name, S_fat) /\ ~Contains(name, S_saturated) THEN "fat"
  ELSE NoKind

\* nid = nut.get("id"); isinstance(nid, int) and nid in KEY_NUTRIENT_IDS
IdRecognized(n) ==
  LET nut == Or(Get(n, "nutrient"), EmptyNutrient)
      nid == Get(nut, "id")
  IN IsInstanceInt(nid) /\ AsInt(nid) \in DOMAIN KEY_NUTRIENT_IDS

IdKind(n) ==
  LET nut == Or(Get(n, "nutrient"), EmptyNutrient)
  IN KEY_NUTRIENT_IDS[AsInt(Get(nut, "id"))]

EntryKindNameFirst(n) ==
  IF Get(n, "amount") = None THEN NoKind
  ELSE IF Len(EntryName(n)) > 0 /\ NameKind(EntryName(n)) # NoKind
       THEN NameKind(EntryName(n))
  ELSE IF IdRecognized(n) THEN IdKind(n)
  ELSE NoKind

\* The key of `found` one pass of the loop body assigns (NoKind: none): the
\* amount test, then the ID test, then the name chain.
EntryKind(n) ==
  IF Get(n, "amount") = None THEN NoKind
  ELSE IF IdRecognized(n) THEN IdKind(n)
  ELSE IF Len(EntryName(n)) = 0 THEN NoKind
  ELSE NameKind(EntryName(n))

AssignIfUnset(fnd, kind, val) ==
  IF fnd[kind] = None THEN [fnd EXCEPT ![kind] = val] ELSE fnd

\* found[kind] = float(amount)
Assign(fnd, kind, val) == [fnd EXCEPT ![kind] = val]

ProcessEntrySwallow(fnd, n) ==
  LET kind == EntryKind(n)
      amount == Get(n, "amount")
  IN IF kind = NoKind \/ ~FloatOk(amount) THEN [raised |-> FALSE, found |-> fnd]
     ELSE [raised |-> FALSE, found |-> Assign(fnd, kind, Float(amount))]

\* One pass of the loop body on entry n: the dict afterwards, or the
\* exception float(amount) raises.
ProcessEntry(fnd, n) ==
  LET kind == EntryKind(n)
      amount == Get(n, "amount")
  IN IF kind = NoKind THEN [raised |-> FALSE, found |-> fnd]
     ELSE IF ~FloatOk(amount) THEN [raised |-> TRUE, found |-> fnd]
     ELSE [raised |-> FALSE, found |-> Assign(fnd, kind, Float(amount))]

\* for n in food_json.get("foodNutrients", []) or []
NutrientList(food_json) ==
  Or(GetDefault(food_json, "foodNutrients", ListV(<<>>)), ListV(<<>>)).l

(***************************************************************************)
(* The upstream provider and the HTTP client (requests).                   *)
(***************************************************************************)
S_Apple == <<"A", "p", "p", "l", "e">>
S_apple == <<"a", "p", "p", "l", "e">>
S_Protein == <<"P", "r", "o", "t", "e", "i", "n">>
S_Energy == <<"E", "n", "e", "r", "g", "y">>
S_Calories == <<"C", "a", "l", "o", "r", "i", "e", "s">>
S_SatFat ==
  <<"F", "a", "t", "t", "y", " ", "a", "c", "i", "d", "s", ",", " ",
    "t", "o", "t", "a", "l", " ", "s", "a", "t", "u", "r", "a", "t", "e", "d">>
S_TotalFat ==
  <<"T", "o", "t", "a", "l", " ", "l", "i", "p", "i", "d", " ", "(", "f", "a", "t", ")">>
S_Carb ==
  <<"C", "a", "r", "b", "o", "h", "y", "d", "r", "a", "t", "e", ",", " ",
    "b", "y", " ", "d", "i", "f", "f", "e", "r", "e", "n", "c", "e">>
S_Fiber ==
  <<"F", "i", "b", "e", "r", ",", " ", "t", "o", "t", "a", "l", " ",
    "d", "i", "e", "t", "a", "r", "y">>
S_VitaminC == <<"V", "i", "t", "a", "m", "i", "n", " ", "C">>
S_FAT == <<"F", "A", "T">>
S_SatProtein ==
  <<"S", "a", "t", "u", "r", "a", "t", "e", "d", " ", "f", "a", "t", " ",
    "p", "r", "o", "t", "e", "i", "n">>
S_abc == <<"a", "b", "c">>
S_7 == <<"7">>
S_12_5 == <<"1", "2", ".", "5">>
S_208 == <<"2", "0", "8">>
S_key == <<"k", "e", "y">>

\* A foodNutrients entry and its nested nutrient object.
Entry(amount, nutrient, nutrientName) ==
  [t |-> "dict", amount |-> amount, nutrient |-> nutrient, nutrientName |-> nutrientName]

Nutrient(id, name) == [t |-> "dict", id |-> id, name |-> name]

\* A search hit.
Item(fdcId, description, lowercaseDescription) ==
  [t |-> "dict", fdcId |-> fdcId, description |-> description,
   lowercaseDescription |-> lowercaseDescription]

SeqsUpTo(S, n) == UNION {[1..k -> S] : k \in 0..n}

\* A response body that resp.json() cannot decode.
Invalid == [t |-> "invalid"]

\* The status codes the upstream answers with.
Statuses == {200, 304, 404, 500}

\* The values the environment gives USDA_API_KEY: unset, empty, set.
ApiKeys == {None, StrV(<<>>), StrV(S_key)}

FdcIds == {1, 2}

Pages == {1}

\* Bodies the upstream answers a search with.
SearchBodies ==
  {Invalid, None,
   [t |-> "dict",
    foods |-> ListV(<<Item(IntV(1001), StrV(S_Apple), Absent),
                      Item(StrV(S_208), Absent, StrV(S_apple))>>),
    totalHits |-> IntV(1), currentPage |-> Absent, totalPages |-> IntV(1)]}

\* Bodies the upstream answers a detail lookup with.
DetailBodies ==
  {Invalid, None,
   [t |-> "dict", fdcId |-> IntV(7), description |-> StrV(S_Apple),
    foodNutrients |->
      ListV(<<Entry(IntV(250), Nutrient(IntV(208), StrV(S_Protein)), Absent),
              Entry(StrV(S_12_5), Nutrient(Absent, StrV(S_Protein)), Absent)>>)],
   [t |-> "dict", fdcId |-> Absent, description |-> Absent,
    foodNutrients |->
      ListV(<<Entry(IntV(5), Nutrient(IntV(203), Absent), Absent),
              Entry(StrV(S_abc), Absent, StrV(S_Energy))>>)]}

NotOk4xxOnly(status) == ~(400 <= status /\ status < 500)

\* requests.Response.ok: raise_for_status() raises for 400 <= status < 600.
RespOk(status) == ~(400 <= status /\ status < 600)

(***************************************************************************)
(* Responses of the service.                                               *)
(***************************************************************************)
\* raise HTTPException(status_code=..., detail=...)
HTTPException(status_code, detail) ==
  [status |-> status_code, detail |-> detail, body |-> None]

\* A returned response model, sent with status 200.
Success(body) == [status |-> 200, detail |-> "", body |-> body]

\* An exception no handler catches: the framework answers 500.
Unhandled == [status |-> 500, detail |-> "Internal Server Error", body |-> None]

Misconfigured ==
  HTTPException(500, "Server misconfigured: USDA_API_KEY missing. Add it to .env")

BadGatewayAs500 == HTTPException(500, "Upstream request failed")

\* except Exception as e: raise HTTPException(status_code=502, ...)
BadGateway == HTTPException(502, "Upstream request failed")

NoRequest == [endpoint |-> "none"]
NoUpstream == [kind |-> "none"]
NoResponse == [status |-> 0, detail |-> "", body |-> None]

\* SearchResponse(foods=..., totalHits=..., pageNumber=..., totalPages=...)
SearchResponse(d, page) ==
  [foods |-> simplify_foods(Get(d, "foods")),
   totalHits |-> ToInt(Or(GetDefault(d, "totalHits", IntV(0)), IntV(0))),
   pageNumber |-> ToInt(Or(GetDefault(d, "currentPage", IntV(page)), IntV(page))),
   totalPages |-> ToInt(Or(GetDefault(d, "totalPages", IntV(0)), IntV(0)))]

\* FoodDetails(fdcId=..., description=..., nutrients=Nutrients(**found))
FoodDetails(d, fdc_id, fnd) ==
  [fdcId |-> ToInt(Or(GetDefault(d, "fdcId", IntV(fdc_id)), IntV(fdc_id))),
   description |-> Str(Or(Get(d, "description"), StrV(S_unknown_item))),
   nutrients |-> fnd]

(***************************************************************************)
(* Inputs of the extractor and the normalizer specifications.              *)
(***************************************************************************)
RecognizedIds == {208, 203, 204, 205, 291}

RichEntries ==
  \* a recognized ID under a name that says otherwise, and under no name
  {Entry(IntV(250), Nutrient(IntV(id), StrV(S_Protein)), Absent) : id \in RecognizedIds}
  \cup {Entry(StrV(S_7), Nutrient(IntV(id), Absent), StrV(S_Energy)) : id \in {208, 204}}
  \* IDs that are not recognized: unknown, a string, a float, a bool, none
  \cup {Entry(IntV(3), Nutrient(id, StrV(S_VitaminC)), Absent) :
          id \in {IntV(999), StrV(S_208), FloatV(2080), BoolV(TRUE)}}
  \* names, nested
  \cup {Entry(FloatV(125), Nutrient(Absent, StrV(nm)), Absent) :
          nm \in {S_Protein, S_Energy, S_Calories, S_SatFat, S_TotalFat, S_Carb,
                  S_Fiber, S_VitaminC, S_FAT, S_SatProtein, <<>>}}
  \* names, legacy flat field
  \cup {Entry(IntV(9), Absent, StrV(S_Protein)),
        Entry(IntV(9), Nutrient(IntV(999), StrV(<<>>)), StrV(S_Fiber)),
        Entry(IntV(9), None, Absent)}
  \* amounts that are absent, null or not numbers
  \cup {Entry(Absent, Nutrient(IntV(208), Absent), Absent),
        Entry(None, Absent, StrV(S_Protein)),
        Entry(StrV(S_abc), Nutrient(IntV(203), Absent), Absent),
        Entry(StrV(S_abc), Nutrient(Absent, StrV(S_Energy)), Absent),
        Entry(StrV(S_abc), Nutrient(Absent, StrV(S_VitaminC)), Absent),
        Entry(ListV(<<>>), Nutrient(IntV(291), Absent), Absent)}

RichDetailBodies ==
  {[t |-> "dict", fdcId |-> Absent, description |-> Absent, foodNutrients |-> ListV(es)] :
     es \in SeqsUpTo(RichEntries, MaxEntries)}
  \cup {[t |-> "dict", fdcId |-> Absent, description |-> Absent, foodNutrients |-> v] :
          v \in {Absent, None}}

RichItems ==
  {Item(id, d[1], d[2]) :
     id \in {Absent, None, IntV(1001), IntV(1002), IntV(0), IntV(-5),
             StrV(S_208), FloatV(10010), BoolV(TRUE)},
     d \in {<<StrV(S_Apple), Absent>>, <<Absent, StrV(S_apple)>>, <<None, Absent>>}}

RichSearchBodies ==
  {[t |-> "dict", foods |-> ListV(es), totalHits |-> Absent,
    currentPage |-> Absent, totalPages |-> Absent] :
     es \in SeqsUpTo(RichItems, MaxItems)}
  \cup {[t |-> "dict", foods |-> v, totalHits |-> Absent,
         currentPage |-> Absent, totalPages |-> Absent] : v \in {Absent, None}}

(***************************************************************************)
(* State: per request r, pc[r] is where its handler stands.                *)
(*   "idle"  "started"  "awaiting"  "received"  "extracting"  "done"       *)
(***************************************************************************)
SearchRequests == {[endpoint |-> "search", query |-> S_apple, page |-> p] : p \in Pages}

DetailRequests == {[endpoint |-> "detail", fdc_id |-> i] : i \in FdcIds}

StoreShared(f, r, fnd) == [q \in DOMAIN f |-> fnd]

\* `found` is a local of the call: a request writes its own dict only.
Store(f, r, fnd) == [f EXCEPT ![r] = fnd]

Idle ==
  /\ pc = [r \in Reqs |-> "idle"]
  /\ request = [r \in Reqs |-> NoRequest]
  /\ calls = [r \in Reqs |-> 0]
  /\ upstream = [r \in Reqs |-> NoUpstream]
  /\ data = [r \in Reqs |-> None]
  /\ idx = [r \in Reqs |-> 0]
  /\ found = [r \in Reqs |-> FreshFound]
  /\ response = [r \in Reqs |-> NoResponse]

\* load_dotenv(); API_KEY = os.getenv("USDA_API_KEY")
Init ==
  /\ API_KEY \in ApiKeys
  /\ Idle

\* A request arrives, its parameters validated by the framework.
Receive(r) ==
  /\ pc[r] = "idle"
  /\ \E req \in SearchRequests \cup DetailRequests :
       request' = [request EXCEPT ![r] = req]
  /\ pc' = [pc EXCEPT ![r] = "started"]
  /\ UNCHANGED <<API_KEY, calls, upstream, data, idx, found, response>>

\* _ensure_api_key() raises.
RaiseMisconfigured(r) ==
  /\ pc[r] = "started"
  /\ ApiKeyMissing(API_KEY)
  /\ response' = [response EXCEPT ![r] = Misconfigured]
  /\ pc' = [pc EXCEPT ![r] = "done"]
  /\ UNCHANGED <<API_KEY, request, calls, upstream, data, idx, found>>

\* _ensure_api_key() returns; requests.get(...) is issued.
CallUpstream(r) ==
  /\ pc[r] = "started"
  /\ ~ApiKeyMissing(API_KEY)
  /\ calls' = [calls EXCEPT ![r] = @ + 1]
  /\ pc' = [pc EXCEPT ![r] = "awaiting"]
  /\ UNCHANGED <<API_KEY, request, upstream, data, idx, found, response>>

\* requests.get raises (connection error, timeout, DNS failure).
UpstreamFails(r) ==
  /\ pc[r] = "awaiting"
  /\ upstream' = [upstream EXCEPT ![r] = [kind |-> "exception"]]
  /\ response' = [response EXCEPT ![r] = BadGateway]
  /\ pc' = [pc EXCEPT ![r] = "done"]
  /\ UNCHANGED <<API_KEY, request, calls, data, idx, found>>

\* requests.get returns a response. The body of a response that is not ok
\* is never read.
UpstreamResponds(r) ==
  /\ pc[r] = "awaiting"
  /\ \E status \in Statuses :
       \E body \in (IF request[r].endpoint = "search" THEN SearchBodies
                    ELSE DetailBodies) :
         /\ RespOk(status) \/ body = None
         /\ upstream' = [upstream EXCEPT ![r] =
              [kind |-> "response", status |-> status, body |-> body]]
  /\ pc' = [pc EXCEPT ![r] = "received"]
  /\ UNCHANGED <<API_KEY, request, calls, data, idx, found, response>>

\* search_foods from `if not resp.ok` to its return.
SearchFinish(r) ==
  /\ pc[r] = "received"
  /\ request[r].endpoint = "search"
  /\ LET resp == upstream[r] IN
       response' = [response EXCEPT ![r] =
         IF ~RespOk(resp.status)
         THEN HTTPException(resp.status, "USDA search failed")
         ELSE IF resp.body = Invalid THEN Unhandled
         ELSE Success(SearchResponse(Or(resp.body, EmptySearchData), request[r].page))]
  /\ pc' = [pc EXCEPT ![r] = "done"]
  /\ UNCHANGED <<API_KEY, request, calls, upstream, data, idx, found>>

\* get_food_details from `if resp.status_code == 404` to the entry of
\* _extract_key_nutrients.
DetailParse(r) ==
  /\ pc[r] = "received"
  /\ request[r].endpoint = "detail"
  /\ LET resp == upstream[r] IN
       IF resp.status = 404 \/ ~RespOk(resp.status) \/ resp.body = Invalid
       THEN /\ response' = [response EXCEPT ![r] =
                 IF resp.status = 404 THEN HTTPException(404, "Food not found")
                 ELSE IF ~RespOk(resp.status)
                      THEN HTTPException(resp.status, "USDA detail failed")
                 ELSE Unhandled]
            /\ pc' = [pc EXCEPT ![r] = "done"]
            /\ UNCHANGED <<data, idx, found>>
       ELSE /\ data' = [data EXCEPT ![r] = Or(resp.body, EmptyDetailData)]
            /\ idx' = [idx EXCEPT ![r] = 1]
            /\ found' = Store(found, r, FreshFound)
            /\ pc' = [pc EXCEPT ![r] = "extracting"]
            /\ UNCHANGED response
  /\ UNCHANGED <<API_KEY, request, calls, upstream>>

\* One pass of the loop of _extract_key_nutrients.
ExtractEntry(r) ==
  /\ pc[r] = "extracting"
  /\ idx[r] <= Len(NutrientList(data[r]))
  /\ LET res == ProcessEntry(found[r], NutrientList(data[r])[idx[r]]) IN
       IF res.raised
       THEN /\ response' = [response EXCEPT ![r] = Unhandled]
            /\ pc' = [pc EXCEPT ![r] = "done"]
            /\ UNCHANGED <<idx, found>>
       ELSE /\ found' = Store(found, r, res.found)
            /\ idx' = [idx EXCEPT ![r] = @ + 1]
            /\ UNCHANGED <<pc, response>>
  /\ UNCHANGED <<API_KEY, request, calls, upstream, data>>

\* The loop is over: return Nutrients(**found), then FoodDetails(...).
DetailReturn(r) ==
  /\ pc[r] = "extracting"
  /\ idx[r] > Len(NutrientList(data[r]))
  /\ response' = [response EXCEPT ![r] =
       Success(FoodDetails(data[r], request[r].fdc_id, found[r]))]
  /\ pc' = [pc EXCEPT ![r] = "done"]
  /\ UNCHANGED <<API_KEY, request, calls, upstream, data, idx, found>>

Next ==
  \E r \in Reqs :
    \/ Receive(r)
    \/ RaiseMisconfigured(r)
    \/ CallUpstream(r)
    \/ UpstreamFails(r)
    \/ UpstreamResponds(r)
    \/ SearchFinish(r)
    \/ DetailParse(r)
    \/ ExtractEntry(r)
    \/ DetailReturn(r)

Spec == Init /\ [][Next]_vars

(***************************************************************************)
(* The extractor alone: request 1 is a detail lookup whose upstream        *)
(* response, drawn from RichDetailBodies, has just arrived.                *)
(***************************************************************************)
Arrived(req, body) ==
  /\ API_KEY = StrV(S_key)
  /\ pc = [r \in Reqs |-> IF r = 1 THEN "received" ELSE "idle"]
  /\ request = [r \in Reqs |-> IF r = 1 THEN req ELSE NoRequest]
  /\ calls = [r \in Reqs |-> IF r = 1 THEN 1 ELSE 0]
  /\ upstream = [r \in Reqs |->
       IF r = 1 THEN [kind |-> "response", status |-> 200, body |-> body]
       ELSE NoUpstream]
  /\ data = [r \in Reqs |-> None]
  /\ idx = [r \in Reqs |-> 0]
  /\ found = [r \in Reqs |-> FreshFound]
  /\ response = [r \in Reqs |-> NoResponse]

InitExtract ==
  \E body \in RichDetailBodies : Arrived([endpoint |-> "detail", fdc_id |-> 1], body)

NextExtract == DetailParse(1) \/ ExtractEntry(1) \/ DetailReturn(1)

SpecExtract == InitExtract /\ [][NextExtract]_vars

(***************************************************************************)
(* The normalizer alone: request 1 is a search whose upstream response,    *)
(* drawn from RichSearchBodies, has just arrived.                          *)
(***************************************************************************)
InitNormalize ==
  \E body \in RichSearchBodies :
    Arrived([endpoint |-> "search", query |-> S_apple, page |-> 1], body)

NextNormalize == SearchFinish(1)

SpecNormalize == InitNormalize /\ [][NextNormalize]_vars

(***************************************************************************)
(* Vocabulary of the properties, stated on the raw upstream payload.       *)
(***************************************************************************)
\* The credential is configured: the environment gave a non-empty value.
CredentialConfigured == API_KEY.t = "str" /\ Len(API_KEY.s) > 0

Done(r) == pc[r] = "done"

Succeeded(r) == Done(r) /\ response[r].status = 200

\* The upstream answered request r with an HTTP response.
Answered(r) == upstream[r].kind = "response"

\* The raw list of nutrient entries of request r's upstream body.
RawEntries(r) ==
  LET b == upstream[r].body
  IN IF b.t = "dict" /\ b.foodNutrients.t = "list" THEN b.foodNutrients.l ELSE <<>>

\* The raw list of search hits of request r's upstream body.
RawItems(r) ==
  LET b == upstream[r].body
  IN IF b.t = "dict" /\ b.foods.t = "list" THEN b.foods.l ELSE <<>>

\* The entry carries an amount.
AmountPresent(n) == n.amount.t \notin {"absent", "none"}

\* The entry's nested nutrient id is an integer of the ID table.
HasRecognizedId(n) ==
  /\ n.nutrient.t = "dict"
  /\ n.nutrient.id.t = "int"
  /\ n.nutrient.id.i \in {208, 203, 204, 205, 291}

\* The ID table as the specification prints it.
StatedIdKind(id) ==
  CASE id = 208 -> "calories"
    [] id = 203 -> "protein"
    [] id = 204 -> "fat"
    [] id = 205 -> "carbs"
    [] id = 291 -> "fiber"

\* The entry's name: the nested name if it is a non-empty string, else the
\* legacy flat name, else empty; lower-cased.
StatedName(n) ==
  Lower(IF n.nutrient.t = "dict" /\ n.nutrient.name.t = "str" /\ n.nutrient.name.s # <<>>
        THEN n.nutrient.name.s
        ELSE IF n.nutrientName.t = "str" THEN n.nutrientName.s
        ELSE <<>>)

\* The kind a lower-cased name is classified into, each condition applying
\* only when no earlier one does.
StatedNameKind(name) ==
  LET cal == Contains(name, S_energy) \/ Contains(name, S_calorie)
      pro == ~cal /\ Contains(name, S_protein)
      car == ~cal /\ ~pro /\ Contains(name, S_carbohydrate)
      fib == ~cal /\ ~pro /\ ~car /\ Contains(name, S_fiber)
      fat == ~cal /\ ~pro /\ ~car /\ ~fib /\ Contains(name, S_fat)
               /\ ~Contains(name, S_saturated)
  IN CASE cal -> "calories" [] pro -> "protein" [] car -> "carbs"
       [] fib -> "fiber" [] fat -> "fat" [] OTHER -> NoKind

\* The kind an entry matches, by ID or else by name (NoKind: none).
StatedKind(n) ==
  IF ~AmountPresent(n) THEN NoKind
  ELSE IF HasRecognizedId(n) THEN StatedIdKind(n.nutrient.id.i)
  ELSE StatedNameKind(StatedName(n))

\* Request r is in the extractor's loop and about to process an entry.
AtEntry(r) == pc[r] = "extracting" /\ idx[r] <= Len(RawEntries(r))

CurrentEntry(r) == RawEntries(r)[idx[r]]

\* Request r has just processed entry i and is still in the loop.
Processed(r, i) ==
  /\ pc[r] = "extracting"
  /\ idx[r] = i + 1
  /\ i \in 1..Len(RawEntries(r))

(***************************************************************************)
(* C1: in the search handler and in the detail handler, when the           *)
(* credential is not configured the request ends with status 500 and makes *)
(* no outbound call: the credential check precedes any network call.       *)
(***************************************************************************)
C1_MissingKeyFailsBeforeCall ==
  ~CredentialConfigured =>
    \A r \in Reqs :
      /\ calls[r] = 0
      /\ upstream[r] = NoUpstream
      /\ Done(r) => response[r] = Misconfigured /\ response[r].status = 500

C1_Witness ==
  /\ ~CredentialConfigured
  /\ \E r \in Reqs : Done(r) /\ request[r].endpoint = "search"
                     /\ response[r].status = 500 /\ calls[r] = 0
  /\ \E r \in Reqs : Done(r) /\ request[r].endpoint = "detail"
                     /\ response[r].status = 500 /\ calls[r] = 0

(***************************************************************************)
(* C2, as claimed: whenever the upstream call completes with a status      *)
(* outside 200..299, the response status equals the upstream's status (a   *)
(* 404 on the detail path giving "Food not found") and the response is not *)
(* a success.                                                              *)
(***************************************************************************)
C2_Original ==
  \A r \in Reqs :
    (Done(r) /\ Answered(r) /\ ~(200 <= upstream[r].status /\ upstream[r].status <= 299)) =>
      /\ response[r].status = upstream[r].status
      /\ response[r].body = None
      /\ (request[r].endpoint = "detail" /\ upstream[r].status = 404)
           => response[r].detail = "Food not found"

(***************************************************************************)
(* C2, amended: whenever the upstream call completes with a 4xx or 5xx     *)
(* status, the request fails and the response status equals the upstream's *)
(* status (a 404 on the detail path giving "Food not found"); no 4xx or    *)
(* 5xx upstream response produces a success response.                      *)
(***************************************************************************)
C2_ErrorStatusMirrored ==
  \A r \in Reqs :
    (Done(r) /\ Answered(r) /\ 400 <= upstream[r].status /\ upstream[r].status <= 599) =>
      /\ response[r].status = upstream[r].status
      /\ response[r].body = None
      /\ (request[r].endpoint = "detail" /\ upstream[r].status = 404)
           => response[r].detail = "Food not found"

C2_Witness ==
  /\ \E r \in Reqs : /\ Done(r) /\ request[r].endpoint = "detail" /\ Answered(r)
                     /\ upstream[r].status = 404 /\ response[r].status = 404
                     /\ response[r].detail = "Food not found"
  /\ \E r \in Reqs : /\ Done(r) /\ request[r].endpoint = "search" /\ Answered(r)
                     /\ upstream[r].status = 500 /\ response[r].status = 500

(***************************************************************************)
(* C3: with the credential configured, a transport-level failure of the    *)
(* outbound call ends the request with status 502; and every request,      *)
(* whatever its outcome, makes at most one outbound call (no retry).       *)
(***************************************************************************)
C3_TransportFailureIs502NoRetry ==
  \A r \in Reqs :
    /\ calls[r] <= 1
    /\ (Done(r) /\ upstream[r].kind = "exception") =>
         response[r].status = 502 /\ response[r].body = None

C3_Witness ==
  /\ CredentialConfigured
  /\ \E r \in Reqs : /\ Done(r) /\ request[r].endpoint = "search"
                     /\ upstream[r].kind = "exception"
                     /\ response[r].status = 502 /\ calls[r] = 1
  /\ \E r \in Reqs : /\ Done(r) /\ request[r].endpoint = "detail"
                     /\ upstream[r].kind = "exception"
                     /\ response[r].status = 502 /\ calls[r] = 1

(***************************************************************************)
(* Normalizer vocabulary.                                                  *)
(***************************************************************************)
\* The record carries an integer id (Python's int, which bool subclasses).
HasIntegerId(it) == it.fdcId.t \in {"int", "bool"}

RawId(it) == IF it.fdcId.t = "bool" THEN (IF it.fdcId.b THEN 1 ELSE 0) ELSE it.fdcId.i

\* The ids of the summaries request r answered with.
OutputIds(r) ==
  [i \in 1..Len(response[r].body.foods) |-> response[r].body.foods[i].fdcId]

\* The ids of the raw records that carry an integer id, in input order.
InputIntegerIds(r) ==
  LET kept == SelectSeq(RawItems(r), HasIntegerId)
  IN [i \in 1..Len(kept) |-> RawId(kept[i])]

(***************************************************************************)
(* C4, as claimed: every FoodSummary the normalizer produces has an id     *)
(* >= 1; a record whose id is absent, non-integer, zero or negative        *)
(* produces no output entry.                                               *)
(***************************************************************************)
C4_Original ==
  Succeeded(1) =>
    /\ \A i \in 1..Len(OutputIds(1)) : OutputIds(1)[i] >= 1
    /\ Len(OutputIds(1)) =
         Cardinality({j \in 1..Len(RawItems(1)) :
                        /\ HasIntegerId(RawItems(1)[j])
                        /\ RawId(RawItems(1)[j]) >= 1})

(***************************************************************************)
(* C4, amended: every FoodSummary the normalizer produces has an integer   *)
(* id, of any sign; a record whose id is absent, null or not an integer    *)
(* produces no output entry, and every record with an integer id, zero and *)
(* negative ids included, produces one.                                    *)
(***************************************************************************)
C4_IntegerIdsOnly ==
  Succeeded(1) =>
    /\ \A i \in 1..Len(OutputIds(1)) :
         /\ OutputIds(1)[i] \in Int
         /\ \E j \in 1..Len(RawItems(1)) :
              HasIntegerId(RawItems(1)[j]) /\ RawId(RawItems(1)[j]) = OutputIds(1)[i]
    /\ Len(OutputIds(1)) =
         Cardinality({j \in 1..Len(RawItems(1)) : HasIntegerId(RawItems(1)[j])})

C4_Witness ==
  /\ Succeeded(1)
  /\ Len(RawItems(1)) = 2
  /\ RawItems(1)[1].fdcId = IntV(-5)
  /\ RawItems(1)[2].fdcId = StrV(S_208)
  /\ OutputIds(1) = <<-5>>

(***************************************************************************)
(* C5: for any input list of raw records (an absent list counting as       *)
(* empty) the normalizer's output is exactly the order-preserving          *)
(* subsequence of the records that carry an integer id: no longer than the *)
(* input, input order kept, duplicates kept.                               *)
(***************************************************************************)
C5_OrderPreservingSubsequence ==
  Succeeded(1) =>
    /\ OutputIds(1) = InputIntegerIds(1)
    /\ Len(OutputIds(1)) <= Len(RawItems(1))
    /\ upstream[1].body.foods.t \in {"absent", "none"} => OutputIds(1) = <<>>

C5_Witness ==
  /\ Succeeded(1)
  /\ Len(RawItems(1)) = 2
  /\ RawItems(1)[1].fdcId = IntV(1002)
  /\ RawItems(1)[2].fdcId = IntV(1001)
  /\ OutputIds(1) = <<1002, 1001>>

(***************************************************************************)
(* C6: an entry whose amount is present and whose nested nutrient id is an *)
(* integer of the ID table assigns its amount to exactly the mapped kind,  *)
(* whatever its name says, and leaves the other four kinds unchanged (the  *)
(* amount being one float() accepts).                                      *)
(***************************************************************************)
C6_IdMatchAssignsMappedKind ==
  [][(/\ AtEntry(1)
      /\ AmountPresent(CurrentEntry(1))
      /\ HasRecognizedId(CurrentEntry(1))
      /\ FloatOk(CurrentEntry(1).amount))
     => (/\ pc'[1] = "extracting"
         /\ idx'[1] = idx[1] + 1
         /\ found'[1] =
              [found[1] EXCEPT ![StatedIdKind(CurrentEntry(1).nutrient.id.i)] =
                 Float(CurrentEntry(1).amount)])]_vars

C6_Witness ==
  /\ Processed(1, 1)
  /\ RawEntries(1)[1] = Entry(IntV(250), Nutrient(IntV(208), StrV(S_Protein)), Absent)
  /\ found[1] = [FreshFound EXCEPT !["calories"] = FloatV(2500)]

C8_ResponseFunctionOfOwnInput ==
  \A r1, r2 \in Reqs :
    (/\ Done(r1) /\ Done(r2)
     /\ request[r1] = request[r2]
     /\ upstream[r1] = upstream[r2])
    => response[r1] = response[r2]

C8_Witness ==
  \E r1, r2 \in Reqs :
    /\ r1 # r2
    /\ Succeeded(r1) /\ Succeeded(r2)
    /\ request[r1] = [endpoint |-> "detail", fdc_id |-> 1]
    /\ request[r2] = request[r1]
    /\ upstream[r1] = upstream[r2]
    /\ Len(RawEntries(r1)) = 2
    /\ response[r1].body.nutrients =
         [FreshFound EXCEPT !["calories"] = FloatV(2500), !["protein"] = FloatV(125)]
    /\ response[r2].body.nutrients = response[r1].body.nutrients

(***************************************************************************)
(* C9: the extractor's final value of each kind is the amount of the last  *)
(* entry, in input order, that matches the kind (by ID or by name), and is *)
(* unknown if no entry matches it: amounts are never summed, and a later   *)
(* match overwrites an earlier one, ID match or name match alike.          *)
(***************************************************************************)
MatchesOf(entries, kind) == {i \in 1..Len(entries) : StatedKind(entries[i]) = kind}

LastMatchAmount(entries, kind) ==
  IF MatchesOf(entries, kind) = {} THEN None
  ELSE LET last == CHOOSE i \in MatchesOf(entries, kind) :
                     \A j \in MatchesOf(entries, kind) : j <= i
       IN Float(entries[last].amount)

C9_LastMatchWins ==
  Succeeded(1) =>
    \A kind \in Kinds :
      response[1].body.nutrients[kind] = LastMatchAmount(RawEntries(1), kind)

C9_Witness ==
  /\ Succeeded(1)
  /\ RawEntries(1) =
       <<Entry(IntV(250), Nutrient(IntV(203), StrV(S_Protein)), Absent),
         Entry(FloatV(125), Nutrient(Absent, StrV(S_Protein)), Absent)>>
  /\ response[1].body.nutrients = [FreshFound EXCEPT !["protein"] = FloatV(125)]

(***************************************************************************)
(* C10: an entry whose amount is absent is skipped without effect; an      *)
(* entry that matches a kind (by ID or by name) but whose amount cannot be *)
(* coerced to a number makes the whole extraction fail: the detail request *)
(* returns no NutrientSet and no success response carrying the kinds that  *)
(* earlier entries matched.                                                *)
(***************************************************************************)
HasUncoercibleMatch(entries) ==
  \E i \in 1..Len(entries) :
    StatedKind(entries[i]) # NoKind /\ ~FloatOk(entries[i].amount)

C10_AbsentSkippedUncoercibleFatal ==
  /\ [](Done(1) =>
          IF HasUncoercibleMatch(RawEntries(1))
          THEN response[1] = Unhandled /\ response[1].status # 200
          ELSE Succeeded(1))
  /\ [][(AtEntry(1) /\ ~AmountPresent(CurrentEntry(1)))
        => (/\ pc'[1] = "extracting"
            /\ idx'[1] = idx[1] + 1
            /\ found'[1] = found[1])]_vars

C10_Witness ==
  /\ Done(1)
  /\ RawEntries(1) =
       <<Entry(IntV(250), Nutrient(IntV(208), StrV(S_Protein)), Absent),
         Entry(StrV(S_abc), Nutrient(Absent, StrV(S_Energy)), Absent)>>
  /\ found[1]["calories"] = FloatV(2500)
  /\ response[1] = Unhandled

====
